---- MODULE Spec2Model ----
(***************************************************************************)
(* A model of get_indico_events_to_ics.py: the driver that fetches the     *)
(* room list and every room's bookings from an Indico instance and writes  *)
(* one .ics file per room plus room_id_mappings.txt, together with the     *)
(* pure helpers it is built from (build_indico_request, get_date_time_obj, *)
(* get_event, get_calendar).                                               *)
(*                                                                         *)
(* Text is modelled as a sequence of one-character strings, so that        *)
(* encoding and parsing are computed character by character.               *)
(***************************************************************************)
EXTENDS Integers, Sequences, FiniteSets, TLC

\* ---------------------------------------------------------------- bounds

\* Longest params list handed to build_indico_request.
MaxParams == 2

\* Longest outer / inner list handed to get_calendar.
MaxOuter == 2

MaxInner == 2

\* The room listing holds at most MaxRooms records.
MaxRooms == 3

VARIABLES
    config,     \* config.yaml as found on disk
    api,        \* the responses the Indico instance gives (fixed once given)
    pc,         \* the driver's position
    run,        \* 1 for the first run, 2 for a re-run on the same inputs
    room_ids,   \* the dict get_room_ids returned
    idx,        \* position of the loop in sorted(room_ids.items())
    bookings,   \* the loop's local `bookings`
    calendar,   \* the loop's local `calendar`
    fs,         \* the directory ./icalendars and its files
    f,          \* the handle of room_id_mappings.txt: open flag and buffer
    http,       \* requests issued so far and requests in flight
    trace,      \* the side effects of this run, in order
    fs0,        \* fs as this run found it
    settings,   \* INDICO_INSTANCE, API_TOKEN, start_date, end_date
    args,       \* arguments of a call of one of the helpers
    ret,        \* what that call returned
    returned    \* whether the call has returned

vars == <<config, api, pc, run, room_ids, idx, bookings, calendar, fs, f,
          http, trace, fs0, settings, args, ret, returned>>

driverVars == <<config, api, pc, run, room_ids, idx, bookings, calendar, fs, f,
                http, trace, fs0, settings>>

callVars == <<args, ret, returned>>

\* ------------------------------------------------------------- sequences

RECURSIVE Concat(_)
Concat(ss) == IF ss = <<>> THEN <<>> ELSE Head(ss) \o Concat(Tail(ss))

\* All sequences over S of length at most n.
SeqsUpTo(S, n) == UNION {[1..k -> S] : k \in 0..n}

\* ------------------------------------------------ urllib.parse.urlencode

Digits == {"0", "1", "2", "3", "4", "5", "6", "7", "8", "9"}

Letters == {"a", "b", "c", "d", "e", "l", "n", "o", "p", "r", "s", "t", "u", "y", "i", "m", "N"}

\* Characters quote_plus leaves alone.
AlwaysSafe == Digits \cup Letters \cup {"_", ".", "-", "~"}

\* The percent-escapes of the reserved characters the model uses.
PercentEscape ==
    [c \in {"&", "=", "+", "%", "?", "/", ":"} |->
        CASE c = "&" -> <<"%", "2", "6">>
          [] c = "=" -> <<"%", "3", "D">>
          [] c = "+" -> <<"%", "2", "B">>
          [] c = "%" -> <<"%", "2", "5">>
          [] c = "?" -> <<"%", "3", "F">>
          [] c = "/" -> <<"%", "2", "F">>
          [] c = ":" -> <<"%", "3", "A">>]

quote_plus_char(c) ==
    IF c \in AlwaysSafe THEN <<c>>
    ELSE IF c = " " THEN <<"+">>
    ELSE PercentEscape[c]

quote_plus(s) == Concat([i \in 1..Len(s) |-> quote_plus_char(s[i])])

RECURSIVE JoinAmp(_)
JoinAmp(parts) ==
    IF parts = <<>> THEN <<>>
    ELSE IF Len(parts) = 1 THEN parts[1]
    ELSE parts[1] \o <<"&">> \o JoinAmp(Tail(parts))

\* urlencode(items): k=v pairs, each side quoted, joined by '&'.
urlencode(items) ==
    JoinAmp([i \in 1..Len(items) |->
                quote_plus(items[i][1]) \o <<"=">> \o quote_plus(items[i][2])])

\* ---------------------------------------------------- build_indico_request

onlypublic == <<"o", "n", "l", "y", "p", "u", "b", "l", "i", "c">>

yes == <<"y", "e", "s">>

\* build_indico_request without the `if not items` early return.
build_indico_request_no_empty_check(path, params, only_public) ==
    LET items == IF only_public THEN Append(params, <<onlypublic, yes>>) ELSE params
    IN  [ret |-> path \o <<"?">> \o urlencode(items), params |-> params]

\* `items` is a fresh list, so the append leaves the caller's params as it is;
\* the result carries the return value and the caller's params after the call.
build_indico_request(path, params, only_public) ==
    LET items == IF only_public THEN Append(params, <<onlypublic, yes>>) ELSE params
    IN  [ret    |-> IF items = <<>> THEN path
                    ELSE path \o <<"?">> \o urlencode(items),
         params |-> params]

\* -------------------------------------------------------- get_date_time_obj

DigitVal ==
    [c \in Digits |->
        CASE c = "0" -> 0 [] c = "1" -> 1 [] c = "2" -> 2 [] c = "3" -> 3
          [] c = "4" -> 4 [] c = "5" -> 5 [] c = "6" -> 6 [] c = "7" -> 7
          [] c = "8" -> 8 [] c = "9" -> 9]

\* str.replace(old, new) for one-character old and new.
replace(s, old, new) == [i \in 1..Len(s) |-> IF s[i] = old THEN new ELSE s[i]]

\* The number written in s[from..to]; only used on digits.
RECURSIVE Number(_, _, _)
Number(s, from, to) ==
    IF to < from THEN 0 ELSE Number(s, from, to - 1) * 10 + DigitVal[s[to]]

IsLeap(y) == (y % 4 = 0 /\ y % 100 # 0) \/ y % 400 = 0

DaysInMonth(y, m) ==
    IF m = 2 THEN (IF IsLeap(y) THEN 28 + 1 ELSE 28)
    ELSE IF m \in {4, 6, 9, 11} THEN 30
    ELSE 31

\* datetime.strptime(s, '%Y-%m-%d %H:%M:%S') on fixed-width text: every input
\* the model draws is either of the shape dddd-dd-dd dd:dd:dd or is rejected
\* by strptime as well as by this test.
strptime(s) ==
    LET shape == /\ Len(s) = 19
                 /\ \A i \in {1, 2, 3, 4, 6, 7, 9, 10, 12, 13, 15, 16, 18, 19} :
                        s[i] \in Digits
                 /\ s[5] = "-" /\ s[8] = "-" /\ s[11] = " "
                 /\ s[14] = ":" /\ s[17] = ":"
        year   == Number(s, 1, 4)
        month  == Number(s, 6, 7)
        day    == Number(s, 9, 10)
        hour   == Number(s, 12, 13)
        minute == Number(s, 15, 16)
        second == Number(s, 18, 19)
    IN  IF /\ shape
           /\ year >= 1
           /\ month \in 1..12
           /\ day \in 1..DaysInMonth(year, month)
           /\ hour \in 0..23 /\ minute \in 0..59 /\ second \in 0..59
        THEN [ok |-> TRUE,
              val |-> [year |-> year, month |-> month, day |-> day,
                       hour |-> hour, minute |-> minute, second |-> second]]
        ELSE [ok |-> FALSE, err |-> "ValueError"]

\* pytz.utc.localize(dt): attaches the zone, moves nothing.
localize_utc(dt) ==
    [year |-> dt.year, month |-> dt.month, day |-> dt.day, hour |-> dt.hour,
     minute |-> dt.minute, second |-> dt.second, tzinfo |-> "UTC"]

\* A get_date_time_obj that reads the text as local time (UTC+1) and converts.
get_date_time_obj_converting(bookings_date_time_str) ==
    LET parsed == strptime(replace(bookings_date_time_str, "T", " "))
    IN  IF parsed.ok
        THEN [ok |-> TRUE,
              val |-> [localize_utc(parsed.val) EXCEPT
                          !.hour = (parsed.val.hour + 23) % 24]]
        ELSE parsed

get_date_time_obj(bookings_date_time_str) ==
    LET bookings_date_time_str_no_T == replace(bookings_date_time_str, "T", " ")
        parsed == strptime(bookings_date_time_str_no_T)
    IN  IF parsed.ok THEN [ok |-> TRUE, val |-> localize_utc(parsed.val)]
        ELSE parsed

\* ------------------------------------------------------------------ get_event

KeyError == [ok |-> FALSE, err |-> "KeyError"]

\* A JSON object is a function on its keys; obj[k] on an absent key raises.
Has(obj, k) == k \in DOMAIN obj

get_event(booking) ==
    IF ~Has(booking, "start_dt") THEN KeyError
    ELSE LET dtstart == get_date_time_obj(booking["start_dt"])
    IN  IF ~dtstart.ok THEN dtstart
    ELSE IF ~Has(booking, "end_dt") THEN KeyError
    ELSE LET dtend == get_date_time_obj(booking["end_dt"])
    IN  IF ~dtend.ok THEN dtend
    ELSE IF ~Has(booking, "reservation") THEN KeyError
    ELSE IF ~Has(booking["reservation"], "booking_reason") THEN KeyError
    ELSE IF ~Has(booking["reservation"], "booked_for_name") THEN KeyError
    ELSE [ok |-> TRUE,
          val |-> [dtstart   |-> dtstart.val,
                   dtend     |-> dtend.val,
                   summary   |-> booking["reservation"]["booking_reason"],
                   organizer |-> booking["reservation"]["booked_for_name"]]]

\* --------------------------------------------------------------- get_calendar

\* for index in range(len(booking)): add get_event(booking[index]).
RECURSIVE inner_loop(_, _, _)
inner_loop(booking, index, components) ==
    IF index > Len(booking) THEN [ok |-> TRUE, val |-> components]
    ELSE LET event == get_event(booking[index])
         IN  IF ~event.ok THEN event
             ELSE inner_loop(booking, index + 1, Append(components, event.val))

\* for booking in bookings: ...
RECURSIVE outer_loop(_, _, _)
outer_loop(bks, k, components) ==
    IF k > Len(bks) THEN [ok |-> TRUE, val |-> components]
    ELSE LET r == inner_loop(bks[k], 1, components)
         IN  IF ~r.ok THEN r ELSE outer_loop(bks, k + 1, r.val)

\* An outer loop that maps only the first booking of every inner list.
RECURSIVE outer_loop_first_only(_, _, _)
outer_loop_first_only(bks, k, components) ==
    IF k > Len(bks) THEN [ok |-> TRUE, val |-> components]
    ELSE IF bks[k] = <<>> THEN outer_loop_first_only(bks, k + 1, components)
    ELSE LET event == get_event(bks[k][1])
         IN  IF ~event.ok THEN event
             ELSE outer_loop_first_only(bks, k + 1, Append(components, event.val))

get_calendar_first_only(bks) == outer_loop_first_only(bks, 1, <<>>)

\* The calendar is the list of its components, in the order they were added.
get_calendar(bks) == outer_loop(bks, 1, <<>>)

\* ------------------------------------------------------------ configuration

ConfigKeys == {"indico_instance", "api_token", "start_date", "end_date"}

\* The value config.yaml gives each key it holds.
ConfigValue ==
    [indico_instance |-> <<"https://indico.example">>,
     api_token       |-> <<"secret">>,
     start_date      |-> <<"2", "0", "2", "4", "-", "0", "1", "-", "0", "1">>,
     end_date        |-> <<"2", "0", "2", "4", "-", "0", "1", "-", "3", "1">>]

\* config.yaml: absent, not YAML, YAML that is no mapping, or a mapping
\* holding some of the keys.
ConfigFiles ==
    {[kind |-> "missing"], [kind |-> "malformed"], [kind |-> "scalar"]}
    \cup {[kind |-> "mapping", map |-> [k \in S |-> ConfigValue[k]]] :
            S \in SUBSET ConfigKeys}

NoSettings ==
    [INDICO_INSTANCE |-> <<>>, API_TOKEN |-> <<>>,
     start_date |-> <<>>, end_date |-> <<>>]

None == <<"N", "o", "n", "e">>

\* -------------------------------------------------------------- the Indico API

\* The ids the instance gives its rooms.
RoomIds == {1, 2, 3}

RoomName == <<"Office", "Seminar room", "Lab A">>

\* The records a listing is made of: every room under its name, and room 1
\* under a former name as well, so that a listing can name a room twice.
RoomRecords ==
    {[id |-> i, full_name |-> RoomName[i]] : i \in RoomIds}
    \cup {[id |-> 1, full_name |-> "Office (old)"]}

Unset == [kind |-> "unset"]

\* What GET /rooms/api/rooms can give: no response at all, a body that is
\* not JSON, a JSON object (an error document), or a JSON array of rooms.
RoomsResponses ==
    {[kind |-> "neterr"], [kind |-> "notjson"], [kind |-> "object"]}
    \cup {[kind |-> "array", body |-> b] : b \in SeqsUpTo(RoomRecords, MaxRooms)}

Dt(y1, y2, y3, y4, m1, m2, d1, d2, h1, h2, n1, n2, s1, s2) ==
    <<y1, y2, y3, y4, "-", m1, m2, "-", d1, d2, "T", h1, h2, ":", n1, n2, ":", s1, s2>>

Dt_0900 == Dt("2", "0", "2", "4", "0", "3", "0", "1", "0", "9", "0", "0", "0", "0")

Dt_1000 == Dt("2", "0", "2", "4", "0", "3", "0", "1", "1", "0", "0", "0", "0", "0")

Dt_leap == Dt("2", "0", "2", "4", "0", "2", "2", "9", "2", "3", "5", "9", "5", "9")

Dt_midnight == Dt("1", "9", "9", "9", "1", "2", "3", "1", "0", "0", "0", "0", "0", "0")

Dt_month13 == Dt("2", "0", "2", "4", "1", "3", "0", "1", "0", "9", "0", "0", "0", "0")

Dt_short == <<"2", "0", "2", "4", "-", "0", "3", "-", "0", "1">>

GoodDates == {Dt_0900, Dt_1000, Dt_leap, Dt_midnight}

BadDates == {Dt_month13, Dt_short}

Booking(start, end, reason, name) ==
    [start_dt |-> start, end_dt |-> end,
     reservation |-> [booking_reason |-> reason, booked_for_name |-> name]]

B_seminar == Booking(Dt_0900, Dt_1000, "Seminar", "A. Example")

B_backwards == Booking(Dt_1000, Dt_0900, "Exam", "B. Example")

B_baddate == Booking(Dt_0900, Dt_month13, "Seminar", "A. Example")

B_noreason == [start_dt |-> Dt_0900, end_dt |-> Dt_1000,
               reservation |-> [booked_for_name |-> "A. Example"]]

\* The `bookings` object of element 0: day key -> list, in document order.
Days_none == <<>>

Days_two == << <<"2024-03-01", <<B_seminar, B_backwards>> >>,
               <<"2024-03-02", <<B_seminar>> >> >>

Days_baddate == << <<"2024-03-01", <<B_seminar, B_baddate>> >> >>

Days_noreason == << <<"2024-03-01", <<B_noreason>> >> >>

\* What POST /rooms/api/calendar can give.
BookingsResponses ==
    {[kind |-> "neterr"], [kind |-> "notjson"], [kind |-> "object"],
     [kind |-> "array", body |-> <<>>],
     [kind |-> "array", body |-> <<[rooms |-> <<>>]>>]}
    \cup {[kind |-> "array", body |-> <<[bookings |-> d]>>] :
            d \in {Days_none, Days_two, Days_baddate, Days_noreason}}

\* ------------------------------------------------------------- the file system

\* calendar.to_ical(): the bytes of the calendar, a function of its components.
to_ical(cal) == [format |-> "text/calendar", components |-> cal]

\* '{}: {}\n'.format(room_id, room_name)
index_line(room_id, room_name) == <<room_id, ": ", room_name, "\n">>

StaleEvent ==
    [dtstart |-> localize_utc(strptime(replace(Dt_midnight, "T", " ")).val),
     dtend |-> localize_utc(strptime(replace(Dt_midnight, "T", " ")).val),
     summary |-> "Old", organizer |-> "Nobody"]

EmptyFs == [dir |-> FALSE, ics |-> <<>>, index |-> [exists |-> FALSE, lines |-> <<>>]]

\* What an earlier run on other inputs may have left: a file for room 0, which
\* no longer exists, files of the present rooms, and an index.
StaleFs ==
    [dir |-> TRUE,
     ics |-> [i \in {0} \cup RoomIds |-> to_ical(<<StaleEvent>>)],
     index |-> [exists |-> TRUE, lines |-> <<index_line(0, "Old room")>>]]

\* A save that opens the file for appending instead of truncating it.
write_file_append(files, room_id, content) ==
    [i \in (DOMAIN files) \cup {room_id} |->
        IF i # room_id THEN files[i]
        ELSE IF room_id \in DOMAIN files
             THEN [format |-> "text/calendar",
                   components |-> files[i].components \o content.components]
             ELSE content]

\* open(path, 'wb') then write then close: the file holds exactly `content`.
write_file(files, room_id, content) ==
    [i \in (DOMAIN files) \cup {room_id} |-> IF i = room_id THEN content ELSE files[i]]

\* ------------------------------------------------------------------ API client

PATH_rooms ==
    <<"/", "r", "o", "o", "m", "s", "/", "a", "p", "i", "/", "r", "o", "o", "m", "s">>

PATH_calendar ==
    <<"/", "r", "o", "o", "m", "s", "/", "a", "p", "i", "/",
      "c", "a", "l", "e", "n", "d", "a", "r">>

K_start_date == <<"s", "t", "a", "r", "t", "_", "d", "a", "t", "e">>

K_end_date == <<"e", "n", "d", "_", "d", "a", "t", "e">>

\* req.json(); on a body that is not JSON the handler prints and calls
\* os.exit, which does not exist: the AttributeError leaves the handler.
get_jresp(resp) ==
    IF resp.kind \in {"array", "object"} THEN [ok |-> TRUE, val |-> resp]
    ELSE [ok |-> FALSE, err |-> "AttributeError"]

\* d[k] = v on an insertion-ordered dict, written as a list of <<key, value>>.
dict_set(d, k, v) ==
    IF \E i \in 1..Len(d) : d[i][1] = k
    THEN [i \in 1..Len(d) |-> IF d[i][1] = k THEN <<k, v>> ELSE d[i]]
    ELSE Append(d, <<k, v>>)

\* {room_data['id']: room_data['full_name'] for room_data in jresp}
RECURSIVE dict_of_rooms(_, _)
dict_of_rooms(jresp, d) ==
    IF jresp = <<>> THEN d
    ELSE dict_of_rooms(Tail(jresp),
                       dict_set(d, Head(jresp).id, Head(jresp).full_name))

\* get_room_ids, from the response on: the dict, or the exception.
get_room_ids(resp) ==
    IF resp.kind = "neterr" THEN [ok |-> FALSE, err |-> "ConnectionError"]
    ELSE LET jresp == get_jresp(resp)
    IN  IF ~jresp.ok THEN jresp
    ELSE IF jresp.val.kind = "object" THEN [ok |-> FALSE, err |-> "TypeError"]
    ELSE [ok |-> TRUE, val |-> dict_of_rooms(jresp.val.body, <<>>)]

\* get_bookings, from the response on: list(jresp[0]['bookings'].values()).
get_bookings(resp) ==
    IF resp.kind = "neterr" THEN [ok |-> FALSE, err |-> "ConnectionError"]
    ELSE LET jresp == get_jresp(resp)
    IN  IF ~jresp.ok THEN jresp
    ELSE IF jresp.val.kind = "object" THEN KeyError
    ELSE IF jresp.val.body = <<>> THEN [ok |-> FALSE, err |-> "IndexError"]
    ELSE IF ~Has(jresp.val.body[1], "bookings") THEN KeyError
    ELSE LET days == jresp.val.body[1].bookings
         IN  [ok |-> TRUE, val |-> [i \in 1..Len(days) |-> days[i][2]]]

\* dict.items() in insertion order, without the sort.
items_unsorted(d) == d

\* sorted(room_ids.items()): the keys are distinct, so the order is by key.
RECURSIVE sorted(_)
sorted(d) ==
    IF d = <<>> THEN <<>>
    ELSE LET m == CHOOSE i \in 1..Len(d) : \A j \in 1..Len(d) : d[i][1] <= d[j][1]
         IN  <<d[m]>> \o sorted([j \in 1..(Len(d) - 1) |-> IF j < m THEN d[j] ELSE d[j + 1]])

\* ---------------------------------------------------------------------- driver

Effect(op, room) == [op |-> op, room |-> room]

\* The room the loop is at.
room_id == sorted(room_ids)[idx][1]

room_name == sorted(room_ids)[idx][2]

\* A close that drops what is still buffered.
Unflushed(disk, buffer) == disk

Flushed(disk, buffer) == [disk EXCEPT !.index.lines = @ \o buffer]

\* A handler that logs the failure and goes on with the next room.
SkipRoom(room, fsNow) ==
    /\ pc' = "Loop"
    /\ idx' = idx + 1
    /\ fs' = fsNow
    /\ f' = f
    /\ trace' = Append(trace, Effect("raise", room))

\* An exception inside the `with` block: the block closes room_id_mappings.txt,
\* which flushes what was buffered, and the exception ends the run.
RaiseInLoop(room, fsNow) ==
    /\ pc' = "Failed"
    /\ idx' = idx
    /\ fs' = Flushed(fsNow, f.buf)
    /\ f' = [open |-> FALSE, buf |-> <<>>]
    /\ trace' = Append(trace, Effect("raise", room))

\* A loader that reads the keys with config.get(key).
LoadConfigWithDefaults ==
    /\ pc = "Init"
    /\ IF config.kind = "mapping"
       THEN /\ settings' =
                 LET get(k) == IF Has(config.map, k) THEN config.map[k] ELSE None
                 IN  [INDICO_INSTANCE |-> get("indico_instance"),
                      API_TOKEN |-> get("api_token"),
                      start_date |-> get("start_date"),
                      end_date |-> get("end_date")]
            /\ pc' = "ConfigLoaded"
       ELSE /\ settings' = settings
            /\ pc' = "Failed"
    /\ UNCHANGED <<config, api, run, room_ids, idx, bookings, calendar, fs, f,
                   http, trace, fs0, callVars>>

\* open("config.yaml"), yaml.safe_load, and the four lookups. A YAMLError is
\* printed and leaves `config` unbound, so the first lookup raises NameError.
LoadConfig ==
    /\ pc = "Init"
    /\ IF config.kind = "mapping" /\ ConfigKeys \subseteq DOMAIN config.map
       THEN /\ settings' = [INDICO_INSTANCE |-> config.map["indico_instance"],
                            API_TOKEN |-> config.map["api_token"],
                            start_date |-> config.map["start_date"],
                            end_date |-> config.map["end_date"]]
            /\ pc' = "ConfigLoaded"
       ELSE /\ settings' = settings
            /\ pc' = "Failed"
    /\ UNCHANGED <<config, api, run, room_ids, idx, bookings, calendar, fs, f,
                   http, trace, fs0, callVars>>

\* get_room_ids up to requests.get.
SendRoomsGet ==
    /\ pc = "ConfigLoaded"
    /\ LET request_path == build_indico_request(PATH_rooms, <<>>, FALSE).ret
       IN  http' = [log |-> Append(http.log,
                                   [method |-> "GET",
                                    url |-> settings.INDICO_INSTANCE \o request_path,
                                    token |-> settings.API_TOKEN]),
                    inflight |-> http.inflight + 1]
    /\ trace' = Append(trace, Effect("GET", 0))
    /\ pc' = "RoomsRequested"
    /\ UNCHANGED <<config, api, run, room_ids, idx, bookings, calendar, fs, f,
                   fs0, settings, callVars>>

\* requests.get returns or raises; the rest of get_room_ids.
RecvRooms ==
    /\ pc = "RoomsRequested"
    /\ \E resp \in (IF api.rooms = Unset THEN RoomsResponses ELSE {api.rooms}) :
          /\ api' = [api EXCEPT !.rooms = resp]
          /\ LET r == get_room_ids(resp)
             IN  IF r.ok THEN room_ids' = r.val /\ pc' = "RoomsFetched"
                 ELSE room_ids' = room_ids /\ pc' = "Failed"
    /\ http' = [http EXCEPT !.inflight = @ - 1]
    /\ UNCHANGED <<config, run, idx, bookings, calendar, fs, f, trace, fs0,
                   settings, callVars>>

\* directory.mkdir(parents=True, exist_ok=True)
MakeDirectory ==
    /\ pc = "RoomsFetched"
    /\ \E ok \in BOOLEAN :
          IF ok
          THEN /\ fs' = [fs EXCEPT !.dir = TRUE]
               /\ trace' = Append(trace, Effect("mkdir", 0))
               /\ pc' = "DirReady"
          ELSE /\ UNCHANGED <<fs, trace>>
               /\ pc' = "Failed"
    /\ UNCHANGED <<config, api, run, room_ids, idx, bookings, calendar, f, http,
                   fs0, settings, callVars>>

\* The index opened with mode 'a': what the file held stays in front.
OpenIndexAppend ==
    /\ pc = "DirReady"
    /\ \E ok \in BOOLEAN :
          IF ok
          THEN /\ fs' = [fs EXCEPT !.index.exists = TRUE]
               /\ f' = [open |-> TRUE, buf |-> <<>>]
               /\ trace' = Append(trace, Effect("truncate_index", 0))
               /\ pc' = "Loop"
          ELSE /\ UNCHANGED <<fs, f, trace>>
               /\ pc' = "Failed"
    /\ idx' = 1
    /\ UNCHANGED <<config, api, run, room_ids, bookings, calendar, http, fs0,
                   settings, callVars>>

\* with open(.../room_id_mappings.txt, 'w') as f: creates or truncates the file.
OpenIndex ==
    /\ pc = "DirReady"
    /\ \E ok \in BOOLEAN :
          IF ok
          THEN /\ fs' = [fs EXCEPT !.index = [exists |-> TRUE, lines |-> <<>>]]
               /\ f' = [open |-> TRUE, buf |-> <<>>]
               /\ trace' = Append(trace, Effect("truncate_index", 0))
               /\ pc' = "Loop"
          ELSE /\ UNCHANGED <<fs, f, trace>>
               /\ pc' = "Failed"
    /\ idx' = 1
    /\ UNCHANGED <<config, api, run, room_ids, bookings, calendar, http, fs0,
                   settings, callVars>>

\* get_bookings up to requests.post, for the next room of the sorted items.
SendBookingsPost ==
    /\ pc = "Loop"
    /\ idx <= Len(sorted(room_ids))
    /\ LET PARAMS == << <<K_start_date, settings.start_date>>,
                        <<K_end_date, settings.end_date>> >>
           request_path == build_indico_request(PATH_calendar, PARAMS, FALSE).ret
       IN  http' = [log |-> Append(http.log,
                                   [method |-> "POST",
                                    url |-> settings.INDICO_INSTANCE \o request_path,
                                    token |-> settings.API_TOKEN,
                                    data |-> [room_ids |-> <<room_id>>]]),
                    inflight |-> http.inflight + 1]
    /\ trace' = Append(trace, Effect("POST", room_id))
    /\ pc' = "BookingsRequested"
    /\ UNCHANGED <<config, api, run, room_ids, idx, bookings, calendar, fs, f,
                   fs0, settings, callVars>>

\* requests.post returns or raises; the rest of get_bookings.
RecvBookings ==
    /\ pc = "BookingsRequested"
    /\ \E resp \in (IF api.bookings[room_id] = Unset THEN BookingsResponses
                    ELSE {api.bookings[room_id]}) :
          /\ api' = [api EXCEPT !.bookings[room_id] = resp]
          /\ LET r == get_bookings(resp)
             IN  IF r.ok
                 THEN /\ bookings' = r.val
                      /\ pc' = "BookingsFetched"
                      /\ UNCHANGED <<idx, fs, f, trace>>
                 ELSE /\ bookings' = bookings
                      /\ RaiseInLoop(room_id, fs)
    /\ http' = [http EXCEPT !.inflight = @ - 1]
    /\ UNCHANGED <<config, run, room_ids, calendar, fs0, settings, callVars>>

\* calendar = get_calendar(bookings)
BuildCalendar ==
    /\ pc = "BookingsFetched"
    /\ LET r == get_calendar(bookings)
       IN  IF r.ok
           THEN /\ calendar' = r.val
                /\ pc' = "CalendarBuilt"
                /\ UNCHANGED <<idx, fs, f, trace>>
           ELSE /\ calendar' = calendar
                /\ RaiseInLoop(room_id, fs)
    /\ UNCHANGED <<config, api, run, room_ids, bookings, http, fs0, settings,
                   callVars>>

\* A save that returns early on a calendar without events.
SaveCalendarSkipEmpty ==
    /\ pc = "CalendarBuilt"
    /\ IF calendar = <<>>
       THEN /\ pc' = "FileWritten"
            /\ UNCHANGED <<fs, trace, idx, f>>
       ELSE /\ fs' = [fs EXCEPT !.ics = write_file(@, room_id, to_ical(calendar))]
            /\ trace' = Append(trace, Effect("ics", room_id))
            /\ pc' = "FileWritten"
            /\ UNCHANGED <<idx, f>>
    /\ UNCHANGED <<config, api, run, room_ids, bookings, calendar, http, fs0,
                   settings, callVars>>

\* save_calendar_to_file(calendar, room_id): open may fail, leaving the file as
\* it was; write may fail, leaving the file truncated.
SaveCalendar ==
    /\ pc = "CalendarBuilt"
    /\ \E outcome \in {"ok", "open_fails", "write_fails"} :
          CASE outcome = "ok" ->
                 /\ fs' = [fs EXCEPT !.ics = write_file(@, room_id, to_ical(calendar))]
                 /\ trace' = Append(trace, Effect("ics", room_id))
                 /\ pc' = "FileWritten"
                 /\ UNCHANGED <<idx, f>>
            [] outcome = "open_fails" -> RaiseInLoop(room_id, fs)
            [] outcome = "write_fails" ->
                 RaiseInLoop(room_id,
                             [fs EXCEPT !.ics = write_file(@, room_id,
                                 [format |-> "truncated", components |-> <<>>])])
    /\ UNCHANGED <<config, api, run, room_ids, bookings, calendar, http, fs0,
                   settings, callVars>>

\* f.write('{}: {}\n'.format(room_id, room_name)): the line goes to the buffer
\* of the handle, which reaches the disk when the buffer fills or at close.
WriteIndexLine ==
    /\ pc = "FileWritten"
    /\ \E buffer_full \in BOOLEAN :
          LET buf == Append(f.buf, index_line(room_id, room_name))
          IN  IF buffer_full
              THEN fs' = Flushed(fs, buf) /\ f' = [f EXCEPT !.buf = <<>>]
              ELSE fs' = fs /\ f' = [f EXCEPT !.buf = buf]
    /\ trace' = Append(trace, Effect("index_line", room_id))
    /\ idx' = idx + 1
    /\ pc' = "Loop"
    /\ UNCHANGED <<config, api, run, room_ids, bookings, calendar, http, fs0,
                   settings, callVars>>

\* The loop is over: the `with` block closes the index and the script ends.
CloseIndex ==
    /\ pc = "Loop"
    /\ idx > Len(sorted(room_ids))
    /\ fs' = Flushed(fs, f.buf)
    /\ f' = [open |-> FALSE, buf |-> <<>>]
    /\ pc' = "Done"
    /\ UNCHANGED <<config, api, run, room_ids, idx, bookings, calendar, http,
                   trace, fs0, settings, callVars>>

\* The operator runs the script again: same config.yaml, same responses, and
\* the output directory as the first run left it.
Rerun ==
    /\ pc = "Done"
    /\ run = 1
    /\ run' = 2
    /\ fs0' = fs
    /\ pc' = "Init"
    /\ room_ids' = <<>>
    /\ idx' = 1
    /\ bookings' = <<>>
    /\ calendar' = <<>>
    /\ http' = [log |-> <<>>, inflight |-> 0]
    /\ trace' = <<>>
    /\ settings' = NoSettings
    /\ UNCHANGED <<config, api, fs, f, callVars>>

CallIdle ==
    /\ args = <<>>
    /\ ret = <<>>
    /\ returned = FALSE

Init ==
    /\ config \in ConfigFiles
    /\ api = [rooms |-> Unset, bookings |-> [i \in RoomIds |-> Unset]]
    /\ pc = "Init"
    /\ run = 1
    /\ room_ids = <<>>
    /\ idx = 1
    /\ bookings = <<>>
    /\ calendar = <<>>
    /\ fs \in {EmptyFs, StaleFs}
    /\ f = [open |-> FALSE, buf |-> <<>>]
    /\ http = [log |-> <<>>, inflight |-> 0]
    /\ trace = <<>>
    /\ fs0 = fs
    /\ settings = NoSettings
    /\ CallIdle

Next ==
    \/ LoadConfig
    \/ SendRoomsGet
    \/ RecvRooms
    \/ MakeDirectory
    \/ OpenIndex
    \/ SendBookingsPost
    \/ RecvBookings
    \/ BuildCalendar
    \/ SaveCalendar
    \/ WriteIndexLine
    \/ CloseIndex
    \/ Rerun

Spec == Init /\ [][Next]_vars

\* --------------------------------------------------- the helpers, called alone

DriverIdle ==
    /\ config = [kind |-> "missing"]
    /\ api = [rooms |-> Unset, bookings |-> [i \in RoomIds |-> Unset]]
    /\ pc = "Init"
    /\ run = 1
    /\ room_ids = <<>>
    /\ idx = 1
    /\ bookings = <<>>
    /\ calendar = <<>>
    /\ fs = EmptyFs
    /\ fs0 = EmptyFs
    /\ f = [open |-> FALSE, buf |-> <<>>]
    /\ http = [log |-> <<>>, inflight |-> 0]
    /\ trace = <<>>
    /\ settings = NoSettings

ParamKeys == {K_start_date, <<"a", " ", "b">>, onlypublic}

ParamValues == {ConfigValue.start_date, <<"a", "&", "b", "=", "c">>, yes}

\* params as the list of its items: a dict's items, or a list of pairs.
ParamLists == SeqsUpTo(ParamKeys \X ParamValues, MaxParams)

InitRequest ==
    /\ DriverIdle
    /\ args \in [path : {PATH_rooms, PATH_calendar},
                 params : ParamLists,
                 only_public : BOOLEAN]
    /\ ret = <<>>
    /\ returned = FALSE

CallBuildIndicoRequest ==
    /\ ~returned
    /\ ret' = build_indico_request(args.path, args.params, args.only_public)
    /\ returned' = TRUE
    /\ UNCHANGED <<args, driverVars>>

SpecRequest == InitRequest /\ [][CallBuildIndicoRequest]_vars

\* Bookings as the API may send them: any start and end text, either reason,
\* and bookings that lack a field.
EventInputs ==
    {Booking(s, e, r, "A. Example") :
        s \in GoodDates \cup BadDates, e \in GoodDates \cup BadDates,
        r \in {"Seminar", "Exam"}}
    \cup {B_noreason,
          [start_dt |-> Dt_0900, end_dt |-> Dt_1000],
          [end_dt |-> Dt_1000,
           reservation |-> [booking_reason |-> "Seminar",
                            booked_for_name |-> "A. Example"]]}

InitEvent ==
    /\ DriverIdle
    /\ args \in EventInputs
    /\ ret = <<>>
    /\ returned = FALSE

CallGetEvent ==
    /\ ~returned
    /\ ret' = get_event(args)
    /\ returned' = TRUE
    /\ UNCHANGED <<args, driverVars>>

SpecEvent == InitEvent /\ [][CallGetEvent]_vars

CalendarInputs ==
    SeqsUpTo(SeqsUpTo({B_seminar, B_backwards, B_baddate}, MaxInner), MaxOuter)

InitCalendar ==
    /\ DriverIdle
    /\ args \in CalendarInputs
    /\ ret = <<>>
    /\ returned = FALSE

CallGetCalendar ==
    /\ ~returned
    /\ ret' = get_calendar(args)
    /\ returned' = TRUE
    /\ UNCHANGED <<args, driverVars>>

SpecCalendar == InitCalendar /\ [][CallGetCalendar]_vars

\* ===================================================================== claims

\* The room list R the listing call returned, as ids and names.
Ids == {room_ids[i][1] : i \in 1..Len(room_ids)}

NameOf(id) == room_ids[CHOOSE i \in 1..Len(room_ids) : room_ids[i][1] = id][2]

\* The k-th smallest room id.
KthId(k) == CHOOSE x \in Ids : Cardinality({y \in Ids : y < x}) = k - 1

\* One line per room, by ascending id.
ExpectedIndex ==
    [k \in 1..Cardinality(Ids) |-> index_line(KthId(k), NameOf(KthId(k)))]

IsPrefix(a, b) == Len(a) <= Len(b) /\ \A i \in 1..Len(a) : a[i] = b[i]

Happened(op, room) == {i \in 1..Len(trace) : trace[i] = Effect(op, room)}

EmptyBookings == [kind |-> "array", body |-> <<[bookings |-> Days_none]>>]

TwoDays == [kind |-> "array", body |-> <<[bookings |-> Days_two]>>]

\* C1: when a run ends without error, every room of R has its <room_id>.ics,
\* written once in this run (rooms without bookings included), and
\* room_id_mappings.txt holds exactly the lines '<id>: <name>' of R, one per
\* room, by strictly ascending id.
C1_OutputComplete ==
    pc = "Done" =>
        /\ \A id \in Ids :
              /\ id \in DOMAIN fs.ics
              /\ Cardinality(Happened("ics", id)) = 1
        /\ fs.index.exists
        /\ fs.index.lines = ExpectedIndex

C1_Witness ==
    /\ pc = "Done"
    /\ Len(room_ids) = 2
    /\ room_ids[1][1] > room_ids[2][1]
    /\ \E id \in Ids : api.bookings[id] = EmptyBookings

\* C2 as stated: nothing touches room_id_mappings.txt (no truncation, no
\* line) before the calendar file of every room has been written.
C2_IndexOnlyAfterAllCalendars ==
    \A i \in 1..Len(trace) :
        trace[i].op \in {"truncate_index", "index_line"} =>
            \A id \in Ids : \E j \in 1..(i - 1) : trace[j] = Effect("ics", id)

\* C2 amended: the run goes listing, directory, truncation of the index, and
\* then per room request, calendar file, index line; the index is truncated
\* before the first room is processed, a room's line is written right after
\* that room's calendar file, and at Done every room has both.
C2_IndexLineFollowsItsCalendar ==
    /\ \A i \in 1..Len(trace) :
          /\ trace[i].op = "GET" => i = 1
          /\ trace[i].op = "mkdir" => i > 1 /\ trace[i - 1].op = "GET"
          /\ trace[i].op = "truncate_index" => i > 1 /\ trace[i - 1].op = "mkdir"
          /\ trace[i].op = "POST" =>
                i > 1 /\ trace[i - 1].op \in {"truncate_index", "index_line"}
          /\ trace[i].op = "ics" =>
                i > 1 /\ trace[i - 1] = Effect("POST", trace[i].room)
          /\ trace[i].op = "index_line" =>
                i > 1 /\ trace[i - 1] = Effect("ics", trace[i].room)
    /\ pc \in {"RoomsRequested", "RoomsFetched"} => trace[Len(trace)].op = "GET"
    /\ pc = "DirReady" => trace[Len(trace)].op = "mkdir"
    /\ pc \in {"Loop", "Done"} =>
          trace[Len(trace)].op \in {"truncate_index", "index_line"}
    /\ pc \in {"BookingsRequested", "BookingsFetched", "CalendarBuilt"} =>
          trace[Len(trace)].op = "POST"
    /\ pc = "FileWritten" => trace[Len(trace)].op = "ics"
    /\ pc = "Done" =>
          /\ ~f.open
          /\ \A id \in Ids : Happened("ics", id) # {} /\ Happened("index_line", id) # {}

C2_Witness ==
    /\ pc = "Done"
    /\ Cardinality(Ids) = 2
    /\ \E id \in Ids : api.bookings[id] = EmptyBookings

\* C3: once a per-room step has failed for room r the run is over in Failed:
\* nothing follows the failure, no request was issued and no calendar file
\* written for a room after r, the files of later rooms are as the run found
\* them, and every room before r has its file with the calendar of its
\* bookings.
C3_FailFast ==
    \A k \in 1..Len(trace) :
        trace[k].op = "raise" =>
            LET r == trace[k].room
            IN  /\ k = Len(trace)
                /\ pc = "Failed"
                /\ http.inflight = 0
                /\ \A i \in 1..Len(trace) : trace[i].room <= r
                /\ \A i \in 1..Len(http.log) :
                      http.log[i].method = "POST" => http.log[i].data.room_ids[1] <= r
                /\ \A id \in Ids :
                      id > r => /\ id \in DOMAIN fs.ics <=> id \in DOMAIN fs0.ics
                                /\ id \in DOMAIN fs.ics => fs.ics[id] = fs0.ics[id]
                /\ \A id \in Ids :
                      id < r =>
                        /\ id \in DOMAIN fs.ics
                        /\ fs.ics[id] =
                             to_ical(get_calendar(get_bookings(api.bookings[id]).val).val)

C3_Witness ==
    /\ pc = "Failed"
    /\ Cardinality(Ids) = 3
    /\ trace # <<>>
    /\ trace[Len(trace)] = Effect("raise", 2)
    /\ api.bookings[1] = TwoDays
    /\ fs0 = StaleFs

ConfigComplete == config.kind = "mapping" /\ ConfigKeys \subseteq DOMAIN config.map

\* C4: with a config.yaml that is malformed or lacks one of the four keys, the
\* run ends before any request is issued and before the directory or any file
\* is created or written.
C4_BadConfigTouchesNothing ==
    ~ConfigComplete =>
        /\ pc \in {"Init", "Failed"}
        /\ http = [log |-> <<>>, inflight |-> 0]
        /\ trace = <<>>
        /\ fs = fs0

C4_Witness ==
    /\ pc = "Failed"
    /\ config.kind = "mapping"
    /\ DOMAIN config.map = ConfigKeys \ {"end_date"}
    /\ fs = EmptyFs

Posts == {i \in 1..Len(http.log) : http.log[i].method = "POST"}

\* C5: at most one request is in flight; the one GET of the listing comes
\* first and has returned before a POST is issued; the POSTs go by strictly
\* ascending room id, one per room, each after the calendar file of the
\* room before; a run that ends without error has issued 1 + N requests.
C5_SequentialRequests ==
    /\ http.inflight \in {0, 1}
    /\ http.inflight = 1 => pc \in {"RoomsRequested", "BookingsRequested"}
    /\ \A i \in 1..Len(http.log) : http.log[i].method = "GET" <=> i = 1
    /\ \A i \in Posts :
          /\ Len(http.log[i].data.room_ids) = 1
          /\ http.log[i].data.room_ids[1] \in Ids
    /\ \A i, j \in Posts :
          i < j => http.log[i].data.room_ids[1] < http.log[j].data.room_ids[1]
    /\ \A i, j \in 1..Len(trace) :
          (i < j /\ trace[i].op = "POST" /\ trace[j].op = "POST") =>
              \E k \in (i + 1)..(j - 1) : trace[k] = Effect("ics", trace[i].room)
    /\ Cardinality(Posts) = Cardinality({i \in 1..Len(trace) : trace[i].op = "POST"})
    /\ pc = "Done" =>
          /\ Len(http.log) = 1 + Cardinality(Ids)
          /\ \A id \in Ids :
                \E i \in Posts : http.log[i].data.room_ids = <<id>>

C5_Witness ==
    /\ pc = "Done"
    /\ Len(http.log) = 4
    /\ room_ids[1][1] = 3

\* C6: a second run on the same config.yaml and the same responses, started
\* on the output of a first run that ended without error, leaves every file
\* with the content it had and the set of files as it was.
C6_RerunIdempotent ==
    (run = 2 /\ pc = "Done") => fs = fs0

C6_Witness ==
    /\ run = 2
    /\ pc = "Done"
    /\ Cardinality(Ids) = 2
    /\ \E id \in Ids : api.bookings[id] = TwoDays

\* C10: inside the loop, and after the run has ended, the lines of
\* room_id_mappings.txt (on disk, and with what the handle still buffers) are
\* the lines of the first rooms by ascending id; every room with a line has its
\* calendar file written in this run, before the line; a room whose
\* processing failed has no line.
C10_IndexIsPrefixOfRooms ==
    Happened("truncate_index", 0) # {} =>
        /\ IsPrefix(fs.index.lines, ExpectedIndex)
        /\ IsPrefix(fs.index.lines \o f.buf, ExpectedIndex)
        /\ \A n \in 1..Len(fs.index.lines \o f.buf) :
              LET id == (fs.index.lines \o f.buf)[n][1]
              IN  /\ id \in DOMAIN fs.ics
                  /\ \E i \in Happened("ics", id) :
                        \E j \in Happened("index_line", id) : i < j
        /\ \A k \in 1..Len(trace) :
              trace[k].op = "raise" =>
                  \A n \in 1..Len(fs.index.lines) :
                      fs.index.lines[n][1] # trace[k].room

C10_Witness ==
    /\ pc = "Failed"
    /\ fs0 = StaleFs
    /\ trace # <<>>
    /\ trace[Len(trace)] = Effect("raise", 3)
    /\ Len(fs.index.lines) = 2

\* --------------------------------------------------------------- helper claims

\* s split at every `sep`.
RECURSIVE Split(_, _, _)
Split(s, sep, cur) ==
    IF s = <<>> THEN <<cur>>
    ELSE IF Head(s) = sep THEN <<cur>> \o Split(Tail(s), sep, <<>>)
    ELSE Split(Tail(s), sep, Append(cur, Head(s)))

\* The text a quoted text stands for: '+' is a space, %XX the escaped character.
RECURSIVE Unquote(_)
Unquote(s) ==
    IF s = <<>> THEN <<>>
    ELSE IF Head(s) = "+" THEN <<" ">> \o Unquote(Tail(s))
    ELSE IF Head(s) = "%"
         THEN <<CHOOSE c \in DOMAIN PercentEscape : PercentEscape[c] = SubSeq(s, 1, 3)>>
              \o Unquote(SubSeq(s, 4, Len(s)))
    ELSE <<Head(s)>> \o Unquote(Tail(s))

\* The pairs a query string holds, in order.
ParseQuery(q) ==
    LET parts == Split(q, "&", <<>>)
    IN  [i \in 1..Len(parts) |->
            LET kv == Split(parts[i], "=", <<>>)
            IN  <<Unquote(kv[1]), Unquote(kv[2])>>]

\* C7: path alone for no params and no flag; path?onlypublic=yes for no
\* params and the flag; else path, '?', and a query that holds every pair of
\* params once, in order, then onlypublic=yes exactly when the flag is set.
\* The caller's params is as it was.
C7_BuildRequest ==
    returned =>
        LET path == args.path
            params == args.params
            flag == args.only_public
            out == ret.ret
            query == SubSeq(out, Len(path) + 2, Len(out))
        IN  /\ (params = <<>> /\ ~flag) => out = path
            /\ (params = <<>> /\ flag) =>
                  out = path \o <<"?">> \o onlypublic \o <<"=">> \o yes
            /\ params # <<>> =>
                  /\ SubSeq(out, 1, Len(path) + 1) = path \o <<"?">>
                  /\ \A i \in 1..Len(query) : query[i] \notin {" ", "?", "/"}
                  /\ ParseQuery(query) =
                        params \o (IF flag THEN << <<onlypublic, yes>> >> ELSE <<>>)
            /\ ret.params = params

C7_Witness ==
    /\ returned
    /\ args.only_public
    /\ Len(args.params) = 2
    /\ args.params[1] = << <<"a", " ", "b">>, <<"a", "&", "b", "=", "c">> >>

\* The text of a date-time: YYYY-MM-DDTHH:MM:SS.
DigitChar == <<"0", "1", "2", "3", "4", "5", "6", "7", "8", "9">>

RECURSIVE Pad(_, _)
Pad(n, width) ==
    IF width = 0 THEN <<>> ELSE Pad(n \div 10, width - 1) \o <<DigitChar[(n % 10) + 1]>>

FormatTimestamp(dt) ==
    Pad(dt.year, 4) \o <<"-">> \o Pad(dt.month, 2) \o <<"-">> \o Pad(dt.day, 2)
    \o <<"T">> \o Pad(dt.hour, 2) \o <<":">> \o Pad(dt.minute, 2)
    \o <<":">> \o Pad(dt.second, 2)

\* C9: for a booking whose start_dt and end_dt are date-times written
\* YYYY-MM-DDTHH:MM:SS, the event's start and end have the fields the texts
\* have and the zone UTC, its summary is booking_reason and its organizer
\* booked_for_name; an end before the start is mapped like any other.
C9_EventKeepsFields ==
    (/\ returned
     /\ Has(args, "start_dt") /\ Has(args, "end_dt") /\ Has(args, "reservation")
     /\ args.start_dt \in GoodDates /\ args.end_dt \in GoodDates
     /\ Has(args.reservation, "booking_reason")
     /\ Has(args.reservation, "booked_for_name")) =>
        /\ ret.ok
        /\ FormatTimestamp(ret.val.dtstart) = args.start_dt
        /\ FormatTimestamp(ret.val.dtend) = args.end_dt
        /\ ret.val.dtstart.tzinfo = "UTC"
        /\ ret.val.dtend.tzinfo = "UTC"
        /\ ret.val.summary = args.reservation.booking_reason
        /\ ret.val.organizer = args.reservation.booked_for_name

C9_Witness ==
    /\ returned
    /\ Has(args, "start_dt") /\ Has(args, "end_dt")
    /\ args.start_dt = Dt_1000
    /\ args.end_dt = Dt_0900
    /\ ret.ok

\* The number of bookings in the first k inner lists.
RECURSIVE CountBefore(_, _)
CountBefore(bks, k) == IF k = 0 THEN 0 ELSE CountBefore(bks, k - 1) + Len(bks[k])

Mappable(bks) ==
    \A i \in 1..Len(bks) : \A j \in 1..Len(bks[i]) : get_event(bks[i][j]).ok

\* C8: when every booking maps, the calendar holds as many events as the
\* inner lists hold bookings, and the j-th booking of the i-th inner list is
\* the event at the place its rank in outer-then-inner order gives it;
\* duplicates stay, and lists without bookings give a calendar without events.
C8_CalendarFlattensInOrder ==
    (returned /\ Mappable(args)) =>
        /\ ret.ok
        /\ Len(ret.val) = CountBefore(args, Len(args))
        /\ \A i \in 1..Len(args) : \A j \in 1..Len(args[i]) :
              ret.val[CountBefore(args, i - 1) + j] = get_event(args[i][j]).val

C8_Witness ==
    /\ returned
    /\ ret.ok
    /\ Len(args) = 2
    /\ args[1] = <<B_backwards, B_backwards>>
    /\ args[2] = <<B_seminar>>

====
